---------------------------- MODULE Spec2Model ----------------------------
(***************************************************************************)
(* Model of src/sync.js: the Readwise -> Notion synchronisation script.    *)
(*                                                                         *)
(* Encoding of JavaScript values.                                          *)
(*   - A string that the code trims (url, source_url, book_title) is a     *)
(*     sequence of one-character strings, so that trim() is computed.      *)
(*     A string that is only tested for truthiness or compared (a tag      *)
(*     name, category, author) is a TLA+ string; "" is the falsy one.      *)
(*   - null / undefined / "not an array" are flags of a record             *)
(*     ([isArray |-> FALSE, ...]), a missing cursor or page id is 0.       *)
(*   - The Notion database is the sequence dest of the pages it holds, in  *)
(*     creation order. A page keeps the properties it was last sent; a     *)
(*     property sent as undefined is left out of the request and so is     *)
(*     left as it was. The multi_select list is kept as it was sent.       *)
(*   - The fields text, note, location and highlighted_at of a normalized  *)
(*     highlight are copied by normalizeHighlights and read by nothing     *)
(*     else; they are left out.                                            *)
(***************************************************************************)
EXTENDS Integers, Sequences, FiniteSets, TLC

VARIABLES
    pc,            \* position of the script: see main and the drivers below
    cursor,        \* main: let cursor (0 is null)
    totalFetched,  \* main: let totalFetched
    totalCreated,  \* main: let totalCreated
    page,          \* main: const page, the last response of fetchReadwisePage
    normalized,    \* main: const normalized
    idx,           \* main: position of the for loop in normalized (1-based)
    dest,          \* the Notion database: sequence of pages
    nCalls,        \* history: outbound calls issued so far
    fetchCursors,  \* history: the cursor carried by each fetch, in order
    createdUrls,   \* history: the URL of each create call issued, in order
    nCreatedIds,   \* history: create calls whose response carried an id
    nHighlights,   \* history: raw highlights received over all fetched pages
    nUpserts,      \* history: calls of upsertUrlWithTags made so far
    anyFailed,     \* history: some outbound call has failed
    last           \* history: the last call of upsertUrlWithTags and its effect

vars == <<pc, cursor, totalFetched, totalCreated, page, normalized, idx, dest,
          nCalls, fetchCursors, createdUrls, nCreatedIds, nHighlights, nUpserts,
          anyFailed, last>>

-----------------------------------------------------------------------------
(* Bounds of the model *)

MaxPages == 2      \* pages in the source's cursor chain
MaxBooks == 2      \* books in one page
MaxHl == 2         \* highlights in one book
MaxTags == 2       \* tags of a normalized highlight handed to the upserter

-----------------------------------------------------------------------------
(* Strings and sequences *)

Whitespace == {" "}

RECURSIVE TrimStart(_)
TrimStart(s) ==
    IF s = <<>> THEN <<>>
    ELSE IF Head(s) \in Whitespace THEN TrimStart(Tail(s)) ELSE s

RECURSIVE TrimEnd(_)
TrimEnd(s) ==
    IF s = <<>> THEN <<>>
    ELSE IF s[Len(s)] \in Whitespace THEN TrimEnd(SubSeq(s, 1, Len(s) - 1)) ELSE s

\* trim() left out: the string as it is
NoTrim(s) == s

\* String.prototype.trim
Trim(s) == TrimEnd(TrimStart(s))

\* a || b on strings held as character sequences
OrElse(a, b) == IF a # <<>> THEN a ELSE b

\* list.filter(Boolean) on a list of tag names
FilterTruthy(list) == SelectSeq(list, LAMBDA t : t # "")

Range(s) == {s[i] : i \in 1..Len(s)}

SeqsUpTo(S, n) == UNION {[1..k -> S] : k \in 0..n}

\* Array.from(new Set(list)): each value once, at its first occurrence
RECURSIVE Dedup(_)
Dedup(list) ==
    IF list = <<>> THEN <<>>
    ELSE IF list[Len(list)] \in Range(SubSeq(list, 1, Len(list) - 1))
         THEN Dedup(SubSeq(list, 1, Len(list) - 1))
         ELSE Append(Dedup(SubSeq(list, 1, Len(list) - 1)), list[Len(list)])

NoDuplicates(s) == \A i, j \in 1..Len(s) : s[i] = s[j] => i = j

-----------------------------------------------------------------------------
(* normalizeHighlights *)

\* t => typeof t === 'string' ? t : (typeof t?.name === 'string' ? t.name : '')
tagName(t) ==
    IF t.type = "string" THEN t.val
    ELSE IF t.type = "object" /\ t.nameIsString THEN t.val
    ELSE ""

\* the body of the inner loop: one raw highlight h of a book with fields meta
normalizeOne(h, meta) ==
    LET rawTags == IF h.tags.isArray THEN h.tags.items ELSE <<>>
        tags == FilterTruthy([i \in 1..Len(rawTags) |-> tagName(rawTags[i])])
    IN  [id |-> ToString(h.id),
         url |-> OrElse(h.url, meta.source_url),
         tags |-> tags,
         book_title |-> meta.book_title,
         book_author |-> meta.book_author,
         source_url |-> meta.source_url,
         category |-> meta.category]

\* the outer loop pushing only the highlights that keep a tag
normalizeBookTagged(book) ==
    LET meta == [book_title |-> book.title,
                 book_author |-> book.author,
                 source_url |-> book.source_url,
                 category |-> book.category]
        hs == IF book.highlights.isArray THEN book.highlights.items ELSE <<>>
        all == [i \in 1..Len(hs) |-> normalizeOne(hs[i], meta)]
    IN  SelectSeq(all, LAMBDA n : n.tags # <<>>)

\* the body of the outer loop: the highlights of one book, in order
normalizeBook(book) ==
    LET meta == [book_title |-> book.title,
                 book_author |-> book.author,
                 source_url |-> book.source_url,
                 category |-> book.category]
        hs == IF book.highlights.isArray THEN book.highlights.items ELSE <<>>
    IN  [i \in 1..Len(hs) |-> normalizeOne(hs[i], meta)]

RECURSIVE normalizeBooks(_)
normalizeBooks(books) ==
    IF books = <<>> THEN <<>>
    ELSE normalizeBook(Head(books)) \o normalizeBooks(Tail(books))

normalizeHighlights(results) ==
    normalizeBooks(IF results.isArray THEN results.items ELSE <<>>)

-----------------------------------------------------------------------------
(* Inputs: what the Readwise export can hold *)

Str(v) == [type |-> "string", nameIsString |-> FALSE, val |-> v]
Obj(v) == [type |-> "object", nameIsString |-> TRUE, val |-> v]
ObjNoName == [type |-> "object", nameIsString |-> FALSE, val |-> ""]
Other == [type |-> "other", nameIsString |-> FALSE, val |-> ""]

Arr(items) == [isArray |-> TRUE, items |-> items]
NotArr == [isArray |-> FALSE, items |-> <<>>]

NoMeta == [title |-> <<>>, author |-> "", source_url |-> <<>>, category |-> ""]
FullMeta == [title |-> <<" ", "T">>, author |-> "A", source_url |-> <<"v">>,
             category |-> "books"]
BookMetas == {NoMeta, FullMeta}

RawHighlight(id, url, tags) == [id |-> id, url |-> url, tags |-> tags]
RawBook(meta, highlights) ==
    [title |-> meta.title, author |-> meta.author,
     source_url |-> meta.source_url, category |-> meta.category,
     highlights |-> highlights]

\* raw highlights whose tags take every shape the normalizer tells apart
ShapePool ==
    {RawHighlight(1, <<>>, NotArr),
     RawHighlight(2, <<"u">>,
                  Arr(<<Str("a"), Other, Obj("b"), ObjNoName, Str(""), Obj("")>>)),
     RawHighlight(3, <<" ">>, Arr(<<Str("a"), Str("a")>>))}

ShapeBooks ==
    {RawBook(m, hs) : m \in BookMetas,
                      hs \in {NotArr} \cup {Arr(l) : l \in SeqsUpTo(ShapePool, MaxHl)}}

\* the values of page.results handed to the normalizer
ShapeResults == {NotArr} \cup {Arr(l) : l \in SeqsUpTo(ShapeBooks, MaxBooks)}

-----------------------------------------------------------------------------
(* State the drivers below leave alone *)

NoLast == [op |-> "none"]
NoPage == [results |-> NotArr, nextPageCursor |-> 0]

HistoryInit ==
    /\ nCalls = 0
    /\ fetchCursors = <<>>
    /\ createdUrls = <<>>
    /\ nCreatedIds = 0
    /\ nHighlights = 0
    /\ nUpserts = 0
    /\ anyFailed = FALSE
    /\ last = NoLast

-----------------------------------------------------------------------------
(* The normalizer alone: normalizeHighlights applied to one value of results *)

InitNorm ==
    /\ pc = "normalize"
    /\ page \in {[results |-> r, nextPageCursor |-> 0] : r \in ShapeResults}
    /\ normalized = <<>>
    /\ cursor = 0 /\ totalFetched = 0 /\ totalCreated = 0 /\ idx = 1
    /\ dest = <<>>
    /\ HistoryInit

Normalize ==
    /\ pc = "normalize"
    /\ normalized' = normalizeHighlights(page.results)
    /\ pc' = "normalized"
    /\ UNCHANGED <<cursor, totalFetched, totalCreated, page, idx, dest, nCalls,
                   fetchCursors, createdUrls, nCreatedIds, nHighlights,
                   nUpserts, anyFailed, last>>

NextNorm == Normalize

SpecNorm == InitNorm /\ [][NextNorm]_vars

-----------------------------------------------------------------------------
(* The Notion database and the three calls made on it *)

Unset(v) == [set |-> FALSE, val |-> v]
Set(v) == [set |-> TRUE, val |-> v]

Tags(p) == p.properties.Tags
Url(p) == p.properties.URL

\* the query filtering on the property Title instead of URL
findPageByTitle(url, d) ==
    IF \E i \in 1..Len(d) : d[i].properties.Title = url
    THEN CHOOSE i \in 1..Len(d) :
            /\ d[i].properties.Title = url
            /\ \A j \in 1..(i - 1) : d[j].properties.Title # url
    ELSE 0

\* notion.databases.query with the filter URL equals url and page_size 1,
\* then resp.results?.[0] || null: the position in dest of the page found, 0
\* for null. Of several pages with that URL the oldest is the one returned.
findPageByUrl(url, d) ==
    IF \E i \in 1..Len(d) : Url(d[i]) = url
    THEN CHOOSE i \in 1..Len(d) :
            /\ Url(d[i]) = url
            /\ \A j \in 1..(i - 1) : Url(d[j]) # url
    ELSE 0

\* notion.pages.create: a new page holding the properties sent
pagesCreate(d, properties) ==
    Append(d, [id |-> Len(d) + 1, properties |-> properties])

\* notion.pages.update: the properties sent replace the page's, a property
\* sent as undefined is not part of the request and stays
pagesUpdate(d, page_id, properties) ==
    LET Keep(new, old) == IF new.set THEN new ELSE old
        Patch(old) == [Title |-> properties.Title,
                       URL |-> properties.URL,
                       Source |-> Keep(properties.Source, old.Source),
                       Book |-> Keep(properties.Book, old.Book),
                       Author |-> Keep(properties.Author, old.Author),
                       Tags |-> properties.Tags]
    IN  [i \in 1..Len(d) |->
            IF d[i].id = page_id
            THEN [id |-> d[i].id, properties |-> Patch(d[i].properties)]
            ELSE d[i]]

-----------------------------------------------------------------------------
(* upsertUrlWithTags *)

baseProperties(h, url) ==
    [Title |-> OrElse(Trim(h.book_title), url),
     URL |-> url,
     Source |-> IF h.category # "" THEN Set(h.category) ELSE Unset(""),
     Book |-> IF h.book_title # <<>> THEN Set(h.book_title) ELSE Unset(<<>>),
     Author |-> IF h.book_author # "" THEN Set(h.book_author) ELSE Unset("")]

WithTags(base, tags) ==
    [Title |-> base.Title, URL |-> base.URL, Source |-> base.Source,
     Book |-> base.Book, Author |-> base.Author, Tags |-> tags]

\* the new tags taking the place of the existing ones
replaceTags(existingTags, tags) == Dedup(tags)

\* Array.from(new Set([...existingTags, ...tags]))
mergeTags(existingTags, tags) == Dedup(existingTags \o tags)

\* the update sent whether or not the tags changed
alwaysUpdate(merged, existingTags) == TRUE

\* merged.length !== existingTags.length || merged.some((t, i) => t !== existingTags[i])
needUpdate(merged, existingTags) ==
    \/ Len(merged) # Len(existingTags)
    \/ \E i \in 1..Len(merged) : i > Len(existingTags) \/ merged[i] # existingTags[i]

QueryCall(url, ok) == [op |-> "query", url |-> url, ok |-> ok]
UpdateCall(page_id, properties, ok) ==
    [op |-> "update", page_id |-> page_id, properties |-> properties, ok |-> ok]
CreateCall(properties, ok, hasId) ==
    [op |-> "create", properties |-> properties, ok |-> ok, hasId |-> hasId]

Outcome(d, calls, ret, threw) ==
    [dest |-> d, calls |-> calls, ret |-> ret, threw |-> threw]

\* The answers of Notion to one call of upsertUrlWithTags: whether the query
\* and the write succeed, and whether the response of create carries an id.
Answers == [query : BOOLEAN, write : BOOLEAN, id : BOOLEAN]

\* One call of upsertUrlWithTags(h) on the database d with the answers o: the
\* database it leaves, the calls it issued in order, the value it returned
\* and whether it threw instead of returning.
upsertUrlWithTags(h, d, o) ==
    LET url == Trim(h.url)
        tags == FilterTruthy(h.tags)
    IN
    IF url = <<>> THEN Outcome(d, <<>>, FALSE, FALSE)
    ELSE IF Len(tags) = 0 THEN Outcome(d, <<>>, FALSE, FALSE)
    ELSE IF ~o.query THEN Outcome(d, <<QueryCall(url, FALSE)>>, FALSE, TRUE)
    ELSE
    LET existing == findPageByUrl(url, d)
        base == baseProperties(h, url)
        query == QueryCall(url, TRUE)
    IN
    IF existing # 0
    THEN LET existingTags == Tags(d[existing])
             merged == mergeTags(existingTags, tags)
             properties == WithTags(base, merged)
             page_id == d[existing].id
         IN  IF needUpdate(merged, existingTags)
             THEN IF o.write
                  THEN Outcome(pagesUpdate(d, page_id, properties),
                               <<query, UpdateCall(page_id, properties, TRUE)>>,
                               FALSE, FALSE)
                  ELSE Outcome(d, <<query, UpdateCall(page_id, properties, FALSE)>>,
                               FALSE, TRUE)
             ELSE Outcome(d, <<query>>, FALSE, FALSE)
    ELSE LET properties == WithTags(base, tags)
         IN  IF o.write
             THEN Outcome(pagesCreate(d, properties),
                          <<query, CreateCall(properties, TRUE, o.id)>>,
                          o.id, FALSE)
             ELSE Outcome(d, <<query, CreateCall(properties, FALSE, FALSE)>>,
                          FALSE, TRUE)

-----------------------------------------------------------------------------
(* The upserter alone: a database filled by earlier calls of                 *)
(* upsertUrlWithTags, then one call on any highlight, then a second call on *)
(* the same highlight.                                                      *)

TagNames == {"a", "b"}
UpsertUrls == {<<>>, <<" ">>, <<"u">>, <<" ", "u">>}
UpsertTags == SeqsUpTo(TagNames, MaxTags) \cup {<<"">>, <<"a", "">>}

NormalizedHighlight(url, tags, meta) ==
    [id |-> "1", url |-> url, tags |-> tags,
     book_title |-> meta.title, book_author |-> meta.author,
     source_url |-> meta.source_url, category |-> meta.category]

UpsertInputs ==
    {NormalizedHighlight(u, t, m) :
        u \in UpsertUrls, t \in UpsertTags, m \in BookMetas}

Called(h, r) ==
    [op |-> "upsert", h |-> h, before |-> dest, calls |-> r.calls,
     ret |-> r.ret, threw |-> r.threw]

InitUpsert ==
    /\ pc = "seed"
    /\ dest = <<>>
    /\ page = NoPage /\ normalized = <<>>
    /\ cursor = 0 /\ totalFetched = 0 /\ totalCreated = 0 /\ idx = 1
    /\ HistoryInit

\* an earlier call, of which only the database it leaves is kept
Seed ==
    /\ pc = "seed"
    /\ \E h \in UpsertInputs, o \in Answers :
          dest' = upsertUrlWithTags(h, dest, o).dest
    /\ UNCHANGED <<pc, cursor, totalFetched, totalCreated, page, normalized, idx,
                   nCalls, fetchCursors, createdUrls, nCreatedIds, nHighlights,
                   nUpserts, anyFailed, last>>

First ==
    /\ pc = "seed"
    /\ \E h \in UpsertInputs, o \in Answers :
          LET r == upsertUrlWithTags(h, dest, o)
          IN  /\ dest' = r.dest
              /\ last' = Called(h, r)
    /\ pc' = "first"
    /\ UNCHANGED <<cursor, totalFetched, totalCreated, page, normalized, idx,
                   nCalls, fetchCursors, createdUrls, nCreatedIds, nHighlights,
                   nUpserts, anyFailed>>

\* the same highlight once more, right after a call that returned
Second ==
    /\ pc = "first"
    /\ ~last.threw
    /\ \E o \in Answers :
          LET r == upsertUrlWithTags(last.h, dest, o)
          IN  /\ dest' = r.dest
              /\ last' = Called(last.h, r)
    /\ pc' = "second"
    /\ UNCHANGED <<cursor, totalFetched, totalCreated, page, normalized, idx,
                   nCalls, fetchCursors, createdUrls, nCreatedIds, nHighlights,
                   nUpserts, anyFailed>>

NextUpsert == Seed \/ First \/ Second

SpecUpsert == InitUpsert /\ [][NextUpsert]_vars

-----------------------------------------------------------------------------
(* The run of main *)

\* The books a page of the export is made of
MainBooks ==
    {RawBook(FullMeta, Arr(<<RawHighlight(1, <<>>, Arr(<<Str("a")>>)),
                             RawHighlight(2, <<"u">>, NotArr)>>)),
     RawBook(NoMeta, Arr(<<RawHighlight(3, <<" ", "u">>, Arr(<<Str("a"), Obj("b")>>)),
                           RawHighlight(4, <<"u">>, Arr(<<Str("b")>>))>>)),
     RawBook(NoMeta, Arr(<<RawHighlight(5, <<>>, Arr(<<Str("a")>>)),
                           RawHighlight(6, <<"u">>, Arr(<<Str("a"), Str("a")>>))>>))}

MainResults == {NotArr} \cup {Arr(l) : l \in SeqsUpTo(MainBooks, MaxBooks)}

\* The databases a run starts from: empty, or holding the page of an earlier run
EarlierPage ==
    WithTags(baseProperties(NormalizedHighlight(<<"u">>, <<"b">>, NoMeta), <<"u">>),
             <<"b">>)
InitDests == {<<>>, pagesCreate(<<>>, EarlierPage)}

\* The source's cursor chain: a fetch without cursor is answered with page 1,
\* a fetch with cursor k with page k; page k names page k + 1 as the next one
\* or ends the chain, and page MaxPages ends it.
PageOf(pageCursor) == IF pageCursor = 0 THEN 1 ELSE pageCursor
NextCursors(pageNo) == IF pageNo < MaxPages THEN {0, pageNo + 1} ELSE {0}

\* fetchReadwisePage: the pageCursor parameter of the request, 0 when the
\* request carries none
fetchReadwisePage(pageCursor) == IF pageCursor # 0 THEN pageCursor ELSE 0

\* the highlights of a value of results, counted on the raw books
RECURSIVE CountHighlights(_)
CountHighlights(books) ==
    IF books = <<>> THEN 0
    ELSE Len(Head(books).highlights.items) + CountHighlights(Tail(books))

Init ==
    /\ pc = "fetch"
    /\ cursor = 0
    /\ totalFetched = 0
    /\ totalCreated = 0
    /\ page = NoPage
    /\ normalized = <<>>
    /\ idx = 1
    /\ dest \in InitDests
    /\ HistoryInit

\* main, lines 148-150: the fetch succeeds
Fetch ==
    /\ pc = "fetch"
    /\ Len(fetchCursors) <= MaxPages
    /\ LET sent == fetchReadwisePage(cursor)
       IN  /\ fetchCursors' = Append(fetchCursors, sent)
           /\ \E results \in MainResults, next \in NextCursors(PageOf(sent)) :
                 /\ page' = [results |-> results, nextPageCursor |-> next]
                 /\ normalized' = normalizeHighlights(results)
                 /\ nHighlights' = nHighlights + CountHighlights(results.items)
    /\ totalFetched' = totalFetched + Len(normalized')
    /\ idx' = 1
    /\ nCalls' = nCalls + 1
    /\ pc' = "upsert"
    /\ UNCHANGED <<cursor, totalCreated, dest, createdUrls, nCreatedIds, nUpserts,
                   anyFailed, last>>

\* main, line 148: the fetch fails and main rejects
FetchFails ==
    /\ pc = "fetch"
    /\ Len(fetchCursors) <= MaxPages
    /\ fetchCursors' = Append(fetchCursors, fetchReadwisePage(cursor))
    /\ nCalls' = nCalls + 1
    /\ anyFailed' = TRUE
    /\ pc' = "failed"
    /\ UNCHANGED <<cursor, totalFetched, totalCreated, page, normalized, idx, dest,
                   createdUrls, nCreatedIds, nHighlights, nUpserts, last>>

CreateCalls(calls) == SelectSeq(calls, LAMBDA c : c.op = "create")
CreateUrls(calls) ==
    LET cs == CreateCalls(calls) IN [i \in 1..Len(cs) |-> cs[i].properties.URL]
CreatedIds(calls) == Len(SelectSeq(CreateCalls(calls), LAMBDA c : c.ok /\ c.hasId))

\* the history of one call of upsertUrlWithTags with outcome r
Upserted(r) ==
    /\ dest' = r.dest
    /\ nCalls' = nCalls + Len(r.calls)
    /\ createdUrls' = createdUrls \o CreateUrls(r.calls)
    /\ nCreatedIds' = nCreatedIds + CreatedIds(r.calls)
    /\ nUpserts' = nUpserts + 1

\* the turn of the loop counting every highlight as created
UpsertCountsAll ==
    /\ pc = "upsert"
    /\ idx <= Len(normalized)
    /\ \E o \in Answers : \E r \in {upsertUrlWithTags(normalized[idx], dest, o)} :
              /\ ~r.threw
              /\ Upserted(r)
    /\ totalCreated' = totalCreated + 1
    /\ idx' = idx + 1
    /\ UNCHANGED <<pc, cursor, totalFetched, page, normalized, fetchCursors,
                   nHighlights, anyFailed, last>>

\* main, lines 152-155: one turn of the for loop, upsertUrlWithTags returns
Upsert ==
    /\ pc = "upsert"
    /\ idx <= Len(normalized)
    /\ \E o \in Answers : \E r \in {upsertUrlWithTags(normalized[idx], dest, o)} :
              /\ ~r.threw
              /\ Upserted(r)
              /\ totalCreated' = IF r.ret THEN totalCreated + 1 ELSE totalCreated
    /\ idx' = idx + 1
    /\ UNCHANGED <<pc, cursor, totalFetched, page, normalized, fetchCursors,
                   nHighlights, anyFailed, last>>

\* the throw of upsertUrlWithTags caught inside the loop, which goes on
UpsertFailsCaught ==
    /\ pc = "upsert"
    /\ idx <= Len(normalized)
    /\ \E o \in Answers : \E r \in {upsertUrlWithTags(normalized[idx], dest, o)} :
              /\ r.threw
              /\ Upserted(r)
    /\ anyFailed' = TRUE
    /\ idx' = idx + 1
    /\ UNCHANGED <<pc, cursor, totalFetched, totalCreated, page, normalized,
                   fetchCursors, nHighlights, last>>

\* main, line 153: upsertUrlWithTags throws and main rejects
UpsertFails ==
    /\ pc = "upsert"
    /\ idx <= Len(normalized)
    /\ \E o \in Answers : \E r \in {upsertUrlWithTags(normalized[idx], dest, o)} :
              /\ r.threw
              /\ Upserted(r)
    /\ anyFailed' = TRUE
    /\ pc' = "failed"
    /\ UNCHANGED <<cursor, totalFetched, totalCreated, page, normalized, idx,
                   fetchCursors, nHighlights, last>>

\* the loop going on without taking the page's cursor
NextPageSameCursor ==
    /\ pc = "upsert"
    /\ idx > Len(normalized)
    /\ page.nextPageCursor # 0
    /\ pc' = "fetch"
    /\ UNCHANGED <<cursor, totalFetched, totalCreated, page, normalized, idx, dest,
                   nCalls, fetchCursors, createdUrls, nCreatedIds, nHighlights,
                   nUpserts, anyFailed, last>>

\* main, lines 158-159: the page names a next page
NextPage ==
    /\ pc = "upsert"
    /\ idx > Len(normalized)
    /\ page.nextPageCursor # 0
    /\ cursor' = page.nextPageCursor
    /\ pc' = "fetch"
    /\ UNCHANGED <<totalFetched, totalCreated, page, normalized, idx, dest, nCalls,
                   fetchCursors, createdUrls, nCreatedIds, nHighlights, nUpserts,
                   anyFailed, last>>

\* main, lines 158 and 162: the page names no next page, the counts are reported
Done ==
    /\ pc = "upsert"
    /\ idx > Len(normalized)
    /\ page.nextPageCursor = 0
    /\ pc' = "done"
    /\ UNCHANGED <<cursor, totalFetched, totalCreated, page, normalized, idx, dest,
                   nCalls, fetchCursors, createdUrls, nCreatedIds, nHighlights,
                   nUpserts, anyFailed, last>>

Next == FetchFails \/ Fetch \/ UpsertFails \/ Upsert \/ NextPage \/ Done

Spec == Init /\ [][Next]_vars

\* The script runs on until main resolves or rejects
LiveSpec == Spec /\ WF_vars(Next)

-----------------------------------------------------------------------------
(* Properties of one call of upsertUrlWithTags, read off the history last   *)
(* under SpecUpsert: last.before is the database before the call, dest the  *)
(* database after it.                                                       *)

IsCall == last.op = "upsert"

CallsOf(op) == SelectSeq(last.calls, LAMBDA c : c.op = op)

\* every character is whitespace: empty after trimming
Blank(url) == \A i \in 1..Len(url) : url[i] \in Whitespace

\* the highlight of the call is one the upserter skips
Skipped == Blank(last.h.url) \/ \A i \in 1..Len(last.h.tags) : last.h.tags[i] = ""

\* the call queried the database, got an answer, and the answer was a page
FoundExisting ==
    /\ IsCall
    /\ ~Skipped
    /\ Len(last.calls) >= 1 /\ last.calls[1].ok
    /\ \E i \in 1..Len(last.before) : Url(last.before[i]) = last.calls[1].url

\* the page that the call found
Existing ==
    last.before[CHOOSE i \in 1..Len(last.before) :
                    Url(last.before[i]) = last.calls[1].url]

\* the incoming tags that are not among the tags old, each once, in the order
\* of their first occurrence
RECURSIVE FirstNew(_, _)
FirstNew(old, incoming) ==
    IF incoming = <<>> THEN <<>>
    ELSE LET n == Len(incoming)
             t == incoming[n]
             front == SubSeq(incoming, 1, n - 1)
         IN  IF t = "" \/ t \in Range(old) \/ t \in Range(front)
             THEN FirstNew(old, front)
             ELSE Append(FirstNew(old, front), t)

NoSameUrl(d) == \A i, j \in 1..Len(d) : Url(d[i]) = Url(d[j]) => i = j

\* C1 (as claimed): a second call of upsertUrlWithTags on the same highlight,
\* right after a first one that returned, issues no update and no create and
\* leaves the database as the first call left it, with no tag name twice on
\* the highlight's page and no two pages with the same URL.
Idempotence ==
    (pc = "second" /\ ~last.threw) =>
        /\ dest = last.before
        /\ CallsOf("update") = <<>> /\ CallsOf("create") = <<>>
        /\ \A i \in 1..Len(dest) :
              Url(dest[i]) = Trim(last.h.url) => NoDuplicates(Tags(dest[i]))
        /\ NoSameUrl(dest)

\* C3 (as claimed): the tag list sent on update is the existing tags of the
\* page in their order, followed by the incoming tags that the page lacks,
\* each once, in the order of their first occurrence.
OrderPreservation ==
    (FoundExisting /\ CallsOf("update") # <<>>) =>
        CallsOf("update")[1].properties.Tags =
            Tags(Existing) \o FirstNew(Tags(Existing), last.h.tags)

\* C4: a highlight whose URL is blank or whose tags are all falsy makes
\* upsertUrlWithTags return false without any call on the database, which
\* stays as it was.
SkippedTouchNothing ==
    (IsCall /\ Skipped) =>
        /\ last.calls = <<>>
        /\ last.ret = FALSE /\ ~last.threw
        /\ dest = last.before

SkippedOnFilledDatabase ==
    /\ IsCall
    /\ last.h.url = <<" ">> /\ last.h.tags = <<"a", "b">>
    /\ Len(last.before) > 0
    /\ last.calls = <<>>

\* C5: on a page found with distinct tag names, upsertUrlWithTags issues one
\* update carrying the base properties and the merged tags when the highlight
\* has a tag the page lacks and no update otherwise; it issues no create and,
\* when it returns, returns false.
UpdateOnlyOnChange ==
    (FoundExisting /\ NoDuplicates(Tags(Existing))) =>
        LET url == last.calls[1].url
            new == FirstNew(Tags(Existing), last.h.tags)
            updates == CallsOf("update")
        IN  /\ CallsOf("create") = <<>>
            /\ Len(CallsOf("query")) = 1
            /\ Len(updates) = IF new # <<>> THEN 1 ELSE 0
            /\ new # <<>> =>
                  /\ updates[1].page_id = Existing.id
                  /\ updates[1].properties =
                        WithTags(baseProperties(last.h, url), Tags(Existing) \o new)
                  /\ last.threw = ~updates[1].ok
            /\ new = <<>> => ~last.threw /\ dest = last.before
            /\ last.ret = FALSE

UpdatedWithNewTag ==
    /\ FoundExisting
    /\ Tags(Existing) = <<"b">>
    /\ last.h.tags = <<"b", "a">>
    /\ Len(CallsOf("update")) = 1 /\ CallsOf("update")[1].ok
    /\ \E i \in 1..Len(dest) : Tags(dest[i]) = <<"b", "a">>

\* C10: a call of upsertUrlWithTags removes no page and no tag name of a
\* page: every page is still there with every name it had, and every update
\* sent carries every name of the page it is sent for.
TagsOnlyGrow ==
    IsCall =>
        /\ Len(dest) >= Len(last.before)
        /\ \A i \in 1..Len(last.before) :
              /\ dest[i].id = last.before[i].id
              /\ Range(Tags(last.before[i])) \subseteq Range(Tags(dest[i]))
        /\ \A k \in 1..Len(CallsOf("update")) :
              \A i \in 1..Len(last.before) :
                 last.before[i].id = CallsOf("update")[k].page_id =>
                    Range(Tags(last.before[i]))
                        \subseteq Range(CallsOf("update")[k].properties.Tags)

TagsGrew ==
    /\ FoundExisting
    /\ Tags(Existing) = <<"a", "a">>
    /\ Len(CallsOf("update")) = 1 /\ CallsOf("update")[1].ok
    /\ \E i \in 1..Len(dest) : Tags(dest[i]) = <<"a", "b">>

-----------------------------------------------------------------------------
(* The normalizer, under SpecNorm *)

BooksOf(results) == IF results.isArray THEN results.items ELSE <<>>
HighlightsOf(book) == IF book.highlights.isArray THEN book.highlights.items ELSE <<>>

\* C9: normalizeHighlights returns one record per raw highlight, in book order
\* and then highlight order; the k-th highlight of the b-th book stands right
\* after the highlights of the books before it, with its own id and its
\* book's title, and its tags are non-empty names taken from its raw tags.
NormalizerShape ==
    pc = "normalized" =>
        LET books == BooksOf(page.results)
        IN  /\ Len(normalized) = CountHighlights(books)
            /\ \A b \in 1..Len(books) :
                  \A k \in 1..Len(HighlightsOf(books[b])) :
                     LET h == HighlightsOf(books[b])[k]
                         n == normalized[CountHighlights(SubSeq(books, 1, b - 1)) + k]
                     IN  /\ n.id = ToString(h.id)
                         /\ n.book_title = books[b].title
                         /\ Len(n.tags) <= Len(h.tags.items)
                         /\ \A i \in 1..Len(n.tags) :
                               /\ n.tags[i] # ""
                               /\ \E j \in 1..Len(h.tags.items) :
                                     h.tags.items[j].val = n.tags[i]

NormalizedMixedPage ==
    /\ pc = "normalized"
    /\ Len(BooksOf(page.results)) = 2
    /\ ~page.results.items[1].highlights.isArray
    /\ Len(HighlightsOf(page.results.items[2])) = 2
    /\ Len(normalized) = 2
    /\ normalized[1].id = "1" /\ normalized[1].tags = <<>>
    /\ normalized[2].id = "2" /\ normalized[2].tags = <<"a", "b">>

-----------------------------------------------------------------------------
(* The run of main, under Spec and LiveSpec *)

\* no two pages with URLs equal after trimming, no page with a blank URL,
\* no URL for which create was called twice
OneRecordInv ==
    /\ \A i, j \in 1..Len(dest) : Trim(Url(dest[i])) = Trim(Url(dest[j])) => i = j
    /\ \A i \in 1..Len(dest) : ~Blank(Url(dest[i]))
    /\ NoDuplicates(createdUrls)
    /\ \A k \in 1..Len(createdUrls) : ~Blank(createdUrls[k])

\* a step keeps every page, with its id and its URL
NeverDeleted ==
    /\ Len(dest') >= Len(dest)
    /\ \A i \in 1..Len(dest) : dest'[i].id = dest[i].id /\ Url(dest'[i]) = Url(dest[i])

\* C2: the database never holds two pages whose URLs are equal after
\* trimming, no page has a blank URL, create is never called twice for one
\* URL, and no step removes a page or changes its URL.
OneRecordPerUrl == []OneRecordInv /\ [][NeverDeleted]_vars

MergedIntoOne ==
    /\ pc = "done"
    /\ Len(fetchCursors) = 2
    /\ nUpserts >= 6
    /\ Len(dest) = 2
    /\ Len(createdUrls) = 2

\* the fetches so far are those of pages 1, 2, ... of the chain in this order,
\* and main is done only after a page without nextPageCursor whose highlights,
\* like those of the pages before it, have all been upserted
PaginationInv ==
    /\ \A k \in 1..Len(fetchCursors) : fetchCursors[k] = IF k = 1 THEN 0 ELSE k
    /\ pc = "done" =>
          /\ page.nextPageCursor = 0
          /\ nUpserts = nHighlights
          /\ ~anyFailed

\* a fetch carries no cursor when it is the first, and otherwise the
\* nextPageCursor of the page before it, whose highlights have been upserted
PaginationStep ==
    fetchCursors' # fetchCursors =>
        LET sent == fetchCursors'[Len(fetchCursors')]
        IN  IF fetchCursors = <<>>
            THEN sent = 0
            ELSE /\ page.nextPageCursor # 0
                 /\ sent = page.nextPageCursor
                 /\ nUpserts = nHighlights

Ended == pc \in {"done", "failed"}

\* C6: the first fetch carries no cursor and every later fetch the
\* nextPageCursor of the page before it, sent only once every highlight of
\* that page has been upserted; the pages are fetched once each in the order
\* of the chain; main is done only after a page without nextPageCursor whose
\* highlights have all been upserted; and the run ends.
PaginationProtocol == []PaginationInv /\ [][PaginationStep]_vars /\ <>Ended

TwoPagesDone ==
    /\ pc = "done"
    /\ fetchCursors = <<0, 2>>
    /\ nUpserts >= 4

\* the run is in the failed state exactly when a call has failed
AbortInv == anyFailed <=> pc = "failed"

\* no step leaves the failed state, and the step of the failing call leaves
\* the database as it was
AbortStep ==
    /\ pc # "failed"
    /\ (anyFailed' /\ ~anyFailed) => (dest' = dest /\ pc' = "failed")

\* C7: once a call has failed the run is in the failed state, the failing
\* step leaves the database as it was, and no step follows it: no further
\* call, no change of the database, no success.
AbortOnFailure == []AbortInv /\ [][AbortStep]_vars

FailedAfterWrites ==
    /\ pc = "failed"
    /\ Len(dest) = 2
    /\ Len(createdUrls) = 2
    /\ Len(fetchCursors) = 2

\* C8: created counts the create calls whose response carried an id, fetched
\* counts the highlights of the pages fetched, and created never exceeds
\* fetched nor the number of calls of upsertUrlWithTags.
CounterAccuracy ==
    /\ totalCreated = nCreatedIds
    /\ totalFetched = nHighlights
    /\ totalCreated <= totalFetched
    /\ totalCreated <= nUpserts

CountedRun ==
    /\ pc = "done"
    /\ totalCreated = 1
    /\ Len(createdUrls) = 2
    /\ totalFetched >= 4

====
